---------------------------- MODULE Spec2Model ----------------------------
(***************************************************************************)
(* A model of the lseq crate: position identifiers (Key), the allocation  *)
(* of a key between two keys (pick), and the replicated Document built on *)
(* an ordered map from Key to Option<Value>.                               *)
(*                                                                         *)
(* src/src/key.rs and src/src/document.rs hold the Key and the Document;   *)
(* src/src/lib.rs holds a second Document whose insert and remove differ   *)
(* (modelled by lib_insert and lib_remove).                                *)
(***************************************************************************)
EXTENDS Integers, Sequences, FiniteSets, TLC

(***************************************************************************)
(* Program constants (key.rs:5-6).                                         *)
(***************************************************************************)
INITIAL_WIDTH == 5
STEP == 2

(***************************************************************************)
(* Bounds of the model.                                                    *)
(***************************************************************************)
\* calls made on the replicas of Spec, all replicas together
MaxOps == 3

\* the site ids callers pass
SiteIds == {1, 2}

(***************************************************************************)
(* cmp::Ordering.                                                          *)
(***************************************************************************)
Less == "Less"
Equal == "Equal"
Greater == "Greater"

\* usize::cmp
usize_cmp(a, b) == IF a < b THEN Less ELSE IF a = b THEN Equal ELSE Greater

\* Ordering::then_with
then_with(c, d) == IF c # Equal THEN c ELSE d

(***************************************************************************)
(* enum Id<SiteId> { Sentinel, Site(SiteId) }: a pair of the variant's     *)
(* position in the declaration and its payload.  The derived Ord compares  *)
(* the variant first and the payload second.                               *)
(***************************************************************************)
Sentinel == <<0, 0>>
Site(s) == <<1, s>>

Id_cmp(a, b) == then_with(usize_cmp(a[1], b[1]), usize_cmp(a[2], b[2]))

(***************************************************************************)
(* struct Key { position: Vec<(usize, Id)>, clock: usize }                 *)
(***************************************************************************)
Key(position, clock) == [position |-> position, clock |-> clock]

Max(a, b) == IF a >= b THEN a ELSE b
Min(a, b) == IF a <= b THEN a ELSE b

\* lhs.next().map(..).unwrap_or_else(|| (0, &Sentinel)) at the i-th step
cmp_next(position, i) == IF i <= Len(position) THEN position[i] ELSE <<0, Sentinel>>

\* a comparison of segments by origin first and index second
cmp_segment_origin_first(left, right) ==
    then_with(Id_cmp(left[2], right[2]), usize_cmp(left[1], right[1]))

\* one turn of the loop of Key::cmp: the comparison of the two segments
cmp_segment(left, right) ==
    then_with(usize_cmp(left[1], right[1]), Id_cmp(left[2], right[2]))

\* the loop of Key::cmp from its i-th turn on
RECURSIVE cmp_loop(_, _, _, _)
cmp_loop(self, other, i, max_level) ==
    IF i > max_level THEN Equal
    ELSE LET c == cmp_segment(cmp_next(self.position, i), cmp_next(other.position, i))
         IN  IF c # Equal THEN c ELSE cmp_loop(self, other, i + 1, max_level)

\* a comparison that lets the clock break a tie of the paths
cmp_then_clock(self, other) ==
    then_with(cmp_loop(self, other, 1, Max(Len(self.position), Len(other.position))),
              usize_cmp(self.clock, other.clock))

\* impl Ord for Key
cmp(self, other) ==
    cmp_loop(self, other, 1, Max(Len(self.position), Len(other.position)))

\* impl PartialEq for Key
eq(self, other) == self.position = other.position

lt(a, b) == cmp(a, b) = Less

(***************************************************************************)
(* enum InsertionStrategy { Front, Back }                                  *)
(***************************************************************************)
Front == "Front"
Back == "Back"
InsertionStrategy == {Front, Back}

\* fn width(level)
RECURSIVE pow2(_)
pow2(n) == IF n = 0 THEN 1 ELSE 2 * pow2(n - 1)

width(level) == INITIAL_WIDTH * pow2(level)

(***************************************************************************)
(* fn pick_position(rng, left, right, strategy): the range handed to       *)
(* rng.gen_range, as <<low, high>>; the draw is any low <= i < high.       *)
(***************************************************************************)
\* the range with the Front window not clipped to the gap
pick_position_range_unclipped(left, right, strategy) ==
    IF strategy = Front
    THEN <<left, left + STEP>>
    ELSE <<Max(IF right >= STEP THEN right - STEP ELSE 0, left), right>>

\* the range with the Back window not clipped to the gap
pick_position_range_back_unclipped(left, right, strategy) ==
    IF strategy = Front
    THEN <<left, Min(left + STEP, right)>>
    ELSE <<IF right >= STEP THEN right - STEP ELSE 0, right>>

pick_position_range(left, right, strategy) ==
    IF strategy = Front
    THEN <<left, Min(left + STEP, right)>>
    ELSE <<Max(IF right >= STEP THEN right - STEP ELSE 0, left), right>>

\* the values pick_position can return
pick_position(left, right, strategy) ==
    LET r == pick_position_range(left, right, strategy)
    IN  {i \in r[1]..(r[2] - 1) : TRUE}

(***************************************************************************)
(* fn get_strategy(rng, strategies, level): the tables it can leave, each  *)
(* the old table extended to level + 1 entries by random draws.            *)
(***************************************************************************)
RECURSIVE extensions(_, _)
extensions(strategies, n) ==
    IF Len(strategies) >= n THEN {strategies}
    ELSE UNION {extensions(Append(strategies, s), n) : s \in InsertionStrategy}

\* a lookup that draws the entry of the level again
get_strategy_redrawn(strategies, level) ==
    UNION {{[t EXCEPT ![level + 1] = s] : s \in InsertionStrategy}
             : t \in extensions(strategies, level + 1)}

get_strategy(strategies, level) == extensions(strategies, level + 1)

(***************************************************************************)
(* Key::pick.  pick_loop is the loop from the given level on, with the     *)
(* prefix ret built so far (levels count from 0, sequences from 1); it     *)
(* yields the set of results the random draws allow, each a record of the  *)
(* key, the strategy table left behind and the level the loop stopped at.  *)
(***************************************************************************)
\* a copy of the left side that loses the origin of the segment
pick_lhs_unsited(self, level) ==
    IF level + 1 <= Len(self.position)
    THEN <<self.position[level + 1][1], Sentinel>>
    ELSE <<0, Sentinel>>

pick_lhs(self, level) ==
    IF level + 1 <= Len(self.position) THEN self.position[level + 1] ELSE <<0, Sentinel>>

\* a default for the right side that opens only from level 2 on
pick_rhs_late(other, level) ==
    IF level + 1 <= Len(other.position) THEN other.position[level + 1]
    ELSE <<IF level < 2 THEN 0 ELSE width(level), Sentinel>>

pick_rhs(other, level) ==
    IF level + 1 <= Len(other.position) THEN other.position[level + 1]
    ELSE <<width(level), Sentinel>>

\* what stops the call: "none", or the assertion or panic that ends it
NoAbort == "none"

\* pick_position's assert!(left + 1 <= right), and gen_range's own panic on
\* an empty range
pick_position_panics(left, right, strategy) ==
    \/ ~(left + 1 <= right)
    \/ pick_position_range(left, right, strategy)[1]
         >= pick_position_range(left, right, strategy)[2]

\* a push that does not record the requesting site
pick_push_unsited(ret, pos, site_id) == Append(ret, <<pos, Sentinel>>)

\* ret.push((pos, site_id)), the last statement of the body of Key::pick
pick_push(ret, pos, site_id) == Append(ret, <<pos, site_id>>)

RECURSIVE pick_loop(_, _, _, _, _, _, _)
pick_loop(self, other, site_id, clock, strategies, level, ret) ==
    LET lpos == pick_lhs(self, level)[1]
        lid  == pick_lhs(self, level)[2]
        rpos == pick_rhs(other, level)[1]
    IN  IF lpos + 1 < rpos
        THEN UNION {
               IF pick_position_panics(lpos + 1, rpos, t[level + 1])
               THEN {[key |-> Key(ret, clock), strategies |-> t, level |-> level,
                      room |-> TRUE, abort |-> "pick_position"]}
               ELSE {[key |-> Key(pick_push(ret, pos, site_id), clock),
                      strategies |-> t, level |-> level, room |-> TRUE,
                      abort |-> NoAbort]
                        : pos \in pick_position(lpos + 1, rpos, t[level + 1])}
               : t \in get_strategy(strategies, level)}
        ELSE IF lpos + 1 = rpos /\ Id_cmp(lid, site_id) = Less
        THEN {[key |-> Key(pick_push(ret, lpos, site_id), clock),
               strategies |-> strategies, level |-> level, room |-> FALSE,
               abort |-> NoAbort]}
        ELSE pick_loop(self, other, site_id, clock, strategies, level + 1,
                       Append(ret, <<lpos, lid>>))

\* Key::pick; its first statement is assert!(*self < *other)
pick(self, other, site_id, clock, strategies) ==
    IF ~lt(self, other)
    THEN {[key |-> Key(<<>>, clock), strategies |-> strategies, level |-> 0,
           room |-> FALSE, abort |-> "pick: self < other"]}
    ELSE pick_loop(self, other, site_id, clock, strategies, 0, <<>>)

(***************************************************************************)
(* BTreeMap<Key, Option<Value>>: a set of entries, at most one for each    *)
(* class of keys that Key::cmp finds Equal.  The map looks a key up by     *)
(* cmp, never by ==.                                                       *)
(***************************************************************************)
\* Option<Value>: None is the empty tuple, Some(v) the tuple of v
None == <<>>
Some(v) == <<v>>

\* Option::unwrap; UnwrapPanic stands for the panic on None (no value is
\* negative)
UnwrapPanic == 0 - 1
unwrap(opt) == IF opt = None THEN UnwrapPanic ELSE opt[1]

Entry(key, value) == [key |-> key, value |-> value]

\* BTreeMap::entry / BTreeMap::get: the entries stored under the key
entry(content, key) == {e \in content : cmp(e.key, key) = Equal}

\* BTreeMap::insert: an occupied entry keeps the key it was stored with and
\* takes the new value
BTreeMap_insert(content, key, value) ==
    IF entry(content, key) = {}
    THEN content \cup {Entry(key, value)}
    ELSE (content \ entry(content, key))
           \cup {Entry(e.key, value) : e \in entry(content, key)}

\* OccupiedEntry::remove_entry / BTreeMap::remove
BTreeMap_remove(content, key) == content \ entry(content, key)

\* the entries in the order BTreeMap::iter yields them: ascending by cmp,
\* the i-th being the entry with i - 1 entries below it
BTreeMap_iter(content) ==
    LET below == {<<Cardinality({o \in content : cmp(o.key, e.key) = Less}), e>>
                    : e \in content}
    IN  [i \in 1..Cardinality(content) |-> (CHOOSE p \in below : p[1] = i - 1)[2]]

(***************************************************************************)
(* struct Document { content, strategies, clock } of document.rs           *)
(***************************************************************************)
Document(content, strategies, clock) ==
    [content |-> content, strategies |-> strategies, clock |-> clock]

\* Document::start, Document::end
start == Key(<<<<0, Sentinel>>>>, 0)
end == Key(<<<<INITIAL_WIDTH, Sentinel>>>>, 0)

\* a document whose upper sentinel lies beyond end()
new_wide(strategy) ==
    Document({Entry(start, None), Entry(Key(<<<<2 * INITIAL_WIDTH, Sentinel>>>>, 0), None)},
             <<strategy>>, 2)

\* Document::new; the level-0 strategy is a random draw
new(strategy) == Document({Entry(start, None), Entry(end, None)}, <<strategy>>, 2)

\* an increment that is forgotten
tick_forgotten(clock) == clock

\* self.clock += 1 of Document::insert
tick(clock) == clock + 1

\* the match on self.content.entry(key.clone()) of Document::insert
insert_entry(content, key, value) ==
    IF entry(content, key) = {}
    THEN content \cup {Entry(key, Some(value))}
    ELSE LET o == CHOOSE e \in entry(content, key) : TRUE
         IN  IF o.key.clock < key.clock
             THEN BTreeMap_insert(BTreeMap_remove(content, key), key, Some(value))
             ELSE content

\* assert_eq!(&key, o.key()) in the Occupied arm of Document::insert
insert_entry_panics(content, key) ==
    \E o \in entry(content, key) : ~eq(key, o.key)

\* Document::insert: the set of outcomes, each the document left behind,
\* the key returned and what stopped the call
insert(self, site_id, left, right, value) ==
    {  IF p.abort # NoAbort
       THEN [doc |-> Document(self.content, p.strategies, self.clock),
             key |-> p.key, abort |-> p.abort]
       ELSE IF ~(lt(left, p.key) /\ lt(p.key, right))
       THEN [doc |-> Document(self.content, p.strategies, self.clock),
             key |-> p.key, abort |-> "insert: left < key < right"]
       ELSE IF insert_entry_panics(self.content, p.key)
       THEN [doc |-> Document(self.content, p.strategies, self.clock),
             key |-> p.key, abort |-> "insert: assert_eq"]
       ELSE [doc |-> Document(insert_entry(self.content, p.key, value),
                              p.strategies, tick(self.clock)),
             key |-> p.key, abort |-> NoAbort]
     : p \in pick(left, right, Site(site_id), self.clock, self.strategies) }

\* a replay that advances the clock of the document
insert_at_ticking(self, key, value) ==
    Document(BTreeMap_insert(self.content, key, Some(value)),
             self.strategies, self.clock + 1)

\* Document::insert_at
insert_at(self, key, value) ==
    Document(BTreeMap_insert(self.content, key, Some(value)),
             self.strategies, self.clock)

\* Document::remove
remove(self, key) ==
    IF \E o \in entry(self.content, key) : o.key.clock = key.clock
    THEN Document(BTreeMap_remove(self.content, key), self.strategies, self.clock)
    ELSE self

\* Document::get
get(self, key) ==
    IF entry(self.content, key) = {} THEN None
    ELSE (CHOOSE e \in entry(self.content, key) : TRUE).value

\* a filter that lets end() through
iter_entries_start_only(self) ==
    SelectSeq(BTreeMap_iter(self.content), LAMBDA item : ~eq(item.key, start))

\* Document::iter: the entries left by the filter, in key order
iter_entries(self) ==
    SelectSeq(BTreeMap_iter(self.content),
              LAMBDA item : ~eq(item.key, start) /\ ~eq(item.key, end))

\* item.1.as_ref().unwrap() meets None
iter_panics(self) ==
    LET items == iter_entries(self)
    IN  \E i \in DOMAIN items : items[i].value = None

\* the values Document::iter yields
iter(self) ==
    LET items == iter_entries(self)
    IN  [i \in DOMAIN items |-> unwrap(items[i].value)]

\* Document::len: self.content.len() - 2 on usize.  With fewer than two
\* entries the subtraction underflows: a build with overflow checks panics,
\* one without wraps around; a negative result here stands for either.
len_underflows(self) == Cardinality(self.content) < 2

len(self) == Cardinality(self.content) - 2

\* Document::is_empty
is_empty(self) == len(self) = 0

(***************************************************************************)
(* The replicas.  Each holds a Document; the keys insert returns travel,   *)
(* with their values, to every replica (issued), which may replay them     *)
(* with insert_at and remove in any order and any number of times.  Every  *)
(* call passes a value no call has passed before, so that a value names    *)
(* the write that stored it.                                               *)
(***************************************************************************)
Replicas == {1, 2}

VARIABLES
    docs,      \* docs[r]: the Document of replica r
    issued,    \* the (key, value) pairs insert has returned, and the replica
    last,      \* the last call: its arguments and what it returned
    abort,     \* NoAbort, or the assertion that stopped the last call
    nops,      \* calls made so far
    pending,   \* SpecConv: the operations of the source not yet delivered
    keys,      \* SpecFuzz: the BTreeSet of keys test_fuzz keeps
    result,    \* SpecFuzz: the Vec of values test_fuzz keeps
    args,      \* SpecPick, SpecCmp: the arguments of the next call
    out        \* SpecPick, SpecCmp: the last call and what it returned

vars == <<docs, issued, last, abort, nops, pending, keys, result, args, out>>

\* the variables other than those of the replicas
others == <<pending, keys, result, args, out>>

NoCall == [op |-> "none"]
NoArgs == [left |-> start, right |-> end]
NoOut == [op |-> "none"]

Issued(key, value, by) == [key |-> key, value |-> value, by |-> by]

\* no call has been made
NoCalls ==
    /\ issued = {}
    /\ last = NoCall
    /\ abort = NoAbort
    /\ nops = 0
    /\ pending = {}

\* every replica holds Document::new()
Init ==
    /\ docs \in [Replicas -> {new(s) : s \in InsertionStrategy}]
    /\ NoCalls
    /\ keys = {}
    /\ result = <<>>
    /\ args = NoArgs
    /\ out = NoOut

\* the keys a caller holds: start(), end() and what insert returned
held == {start, end} \cup {o.key : o \in issued}

\* a value no call has passed before
fresh == nops + 1

\* replica r calls insert(site_id, left, right, value)
InsertCall(r, site_id, left, right, value) ==
    /\ abort = NoAbort
    /\ \E o \in insert(docs[r], site_id, left, right, value) :
          /\ docs' = [docs EXCEPT ![r] = o.doc]
          /\ abort' = o.abort
          /\ issued' = IF o.abort = NoAbort
                       THEN issued \cup {Issued(o.key, value, r)} ELSE issued
          /\ last' = [op |-> "insert", r |-> r, site_id |-> site_id,
                      left |-> left, right |-> right, value |-> value,
                      key |-> o.key, before |-> docs[r],
                      occupied |-> entry(docs[r].content, o.key)]
    /\ nops' = nops + 1

\* replica r calls insert_at(key, value)
InsertAtCall(r, key, value) ==
    /\ abort = NoAbort
    /\ docs' = [docs EXCEPT ![r] = insert_at(docs[r], key, value)]
    /\ last' = [op |-> "insert_at", r |-> r, key |-> key, value |-> value,
                before |-> docs[r], occupied |-> entry(docs[r].content, key)]
    /\ nops' = nops + 1
    /\ UNCHANGED <<issued, abort>>

\* replica r calls remove(key)
RemoveCall(r, key) ==
    /\ abort = NoAbort
    /\ docs' = [docs EXCEPT ![r] = remove(docs[r], key)]
    /\ last' = [op |-> "remove", r |-> r, key |-> key,
                before |-> docs[r], occupied |-> entry(docs[r].content, key)]
    /\ nops' = nops + 1
    /\ UNCHANGED <<issued, abort>>

\* insert between any two keys of the document, for any site
Insert(r) ==
    /\ nops < MaxOps
    /\ \E site_id \in SiteIds, l \in docs[r].content, rt \in docs[r].content :
          /\ lt(l.key, rt.key)
          /\ InsertCall(r, site_id, l.key, rt.key, fresh)
    /\ UNCHANGED others

\* replay of a pair some insert returned, or a write at start() or end()
InsertAt(r) ==
    /\ nops < MaxOps
    /\ \/ \E o \in issued : InsertAtCall(r, o.key, o.value)
       \/ \E k \in {start, end} : InsertAtCall(r, k, fresh)
    /\ UNCHANGED others

Remove(r) ==
    /\ nops < MaxOps
    /\ \E k \in held : RemoveCall(r, k)
    /\ UNCHANGED others

Next == \E r \in Replicas : Insert(r) \/ InsertAt(r) \/ Remove(r)

Spec == Init /\ [][Next]_vars

(***************************************************************************)
(* SpecShare: the replicas as in Spec, where callers pass to insert_at and *)
(* remove only what insert returned: keys are created by insert, with      *)
(* bounds taken from the document, and replicated by insert_at.            *)
(***************************************************************************)
\* replay of a pair some insert returned
Replay(r) ==
    /\ nops < MaxOps
    /\ \E o \in issued : InsertAtCall(r, o.key, o.value)
    /\ UNCHANGED others

\* remove of a key some insert returned
RemoveIssued(r) ==
    /\ nops < MaxOps
    /\ \E o \in issued : RemoveCall(r, o.key)
    /\ UNCHANGED others

NextShare == \E r \in Replicas : Insert(r) \/ Replay(r) \/ RemoveIssued(r)

SpecShare == Init /\ [][NextShare]_vars

(***************************************************************************)
(* SpecDoc: one Document (docs[1]) under insert, insert_at and remove as   *)
(* in Spec, and under its queries.  A query takes &self: it returns a      *)
(* value, or panics, and assigns nothing.                                  *)
(***************************************************************************)
\* what the queries return on the document: start(), end(), get(&k) for
\* every key k of keys, iter() collected, len() and is_empty()
query(self, ks) ==
    [start |-> start, end |-> end, get |-> [k \in ks |-> get(self, k)],
     iter |-> iter(self), len |-> len(self), is_empty |-> is_empty(self)]

\* the ways the queries can end: the unwrap of iter panics on None; the
\* subtraction of len panics on underflow where the build checks overflow
\* and wraps around where it does not
query_aborts(self) ==
    IF iter_panics(self) THEN {"iter: unwrap"}
    ELSE IF len_underflows(self) THEN {"len: underflow", NoAbort}
    ELSE {NoAbort}

\* replica r calls start, end, get for every key it holds, iter, len and
\* is_empty, one after the other
Query(r) ==
    /\ abort = NoAbort
    /\ abort' \in query_aborts(docs[r])
    /\ last' = [op |-> "query", r |-> r, before |-> docs[r],
                ret |-> query(docs[r], held)]
    /\ UNCHANGED <<docs, issued, nops, others>>

\* Document::new() with either draw of the level-0 strategy; the second
\* replica is not used
InitDoc ==
    /\ \E s \in InsertionStrategy : docs = [r \in Replicas |-> new(s)]
    /\ NoCalls
    /\ keys = {}
    /\ result = <<>>
    /\ args = NoArgs
    /\ out = NoOut

NextDoc == Insert(1) \/ InsertAt(1) \/ Remove(1) \/ Query(1)

SpecDoc == InitDoc /\ [][NextDoc]_vars

(***************************************************************************)
(* The Document of lib.rs.  Its new, start, end and iter are those of      *)
(* document.rs; its insert asserts, where document.rs tests, that the      *)
(* entry it evicts is older, and its remove asserts that the key was       *)
(* present.  It has no insert_at.                                          *)
(***************************************************************************)

\* the match on self.content.entry(key.clone()) of lib.rs's Document::insert
lib_insert_entry(content, key, value) ==
    BTreeMap_insert(BTreeMap_remove(content, key), key, Some(value))

\* assert!(old.position == key.position && old.clock < key.clock)
lib_insert_entry_panics(content, key) ==
    \E old \in entry(content, key) :
        ~(old.key.position = key.position /\ old.key.clock < key.clock)

\* lib.rs's Document::insert
lib_insert(self, site_id, left, right, value) ==
    {  IF p.abort # NoAbort
       THEN [doc |-> Document(self.content, p.strategies, self.clock),
             key |-> p.key, abort |-> p.abort]
       ELSE IF ~(lt(left, p.key) /\ lt(p.key, right))
       THEN [doc |-> Document(self.content, p.strategies, self.clock),
             key |-> p.key, abort |-> "insert: left < key < right"]
       ELSE IF lib_insert_entry_panics(self.content, p.key)
       THEN [doc |-> Document(BTreeMap_remove(self.content, p.key),
                              p.strategies, self.clock),
             key |-> p.key, abort |-> "insert: old.clock < key.clock"]
       ELSE [doc |-> Document(lib_insert_entry(self.content, p.key, value),
                              p.strategies, tick(self.clock)),
             key |-> p.key, abort |-> NoAbort]
     : p \in pick(left, right, Site(site_id), self.clock, self.strategies) }

\* lib.rs's Document::remove: assert!(self.content.remove(key).is_some())
lib_remove(self, key) ==
    [doc |-> Document(BTreeMap_remove(self.content, key), self.strategies, self.clock),
     abort |-> IF entry(self.content, key) = {} THEN "remove: is_some" ELSE NoAbort]

(***************************************************************************)
(* SpecLib: one Document of lib.rs (docs[1]), under insert between any two *)
(* of its keys and remove of any key insert has returned.                  *)
(***************************************************************************)
\* calls made on the Document of SpecLib
MaxLibOps == 3

LibInsert ==
    /\ abort = NoAbort
    /\ nops < MaxLibOps
    /\ \E site_id \in SiteIds, l \in docs[1].content, rt \in docs[1].content :
          /\ lt(l.key, rt.key)
          /\ \E o \in lib_insert(docs[1], site_id, l.key, rt.key, fresh) :
                /\ docs' = [docs EXCEPT ![1] = o.doc]
                /\ abort' = o.abort
                /\ issued' = IF o.abort = NoAbort
                             THEN issued \cup {Issued(o.key, fresh, 1)} ELSE issued
                /\ last' = [op |-> "insert", r |-> 1, site_id |-> site_id,
                            left |-> l.key, right |-> rt.key, value |-> fresh,
                            key |-> o.key, before |-> docs[1],
                            occupied |-> entry(docs[1].content, o.key)]
    /\ nops' = nops + 1
    /\ UNCHANGED others

LibRemove ==
    /\ abort = NoAbort
    /\ nops < MaxLibOps
    /\ \E o \in issued :
          /\ docs' = [docs EXCEPT ![1] = lib_remove(docs[1], o.key).doc]
          /\ abort' = lib_remove(docs[1], o.key).abort
          /\ last' = [op |-> "remove", r |-> 1, key |-> o.key,
                      before |-> docs[1], occupied |-> entry(docs[1].content, o.key)]
    /\ nops' = nops + 1
    /\ UNCHANGED <<issued, others>>

NextLib == LibInsert \/ LibRemove

SpecLib == Init /\ [][NextLib]_vars

(***************************************************************************)
(* SpecConv: a source replica (docs[1]) makes insert and remove calls; the *)
(* operations they produce reach a second, fresh replica (docs[2]) one by  *)
(* one, in any order, each once, through insert_at and remove.             *)
(***************************************************************************)
\* calls made before the source of SpecConv stops making calls
MaxConvOps == 2

SrcInsert ==
    /\ nops < MaxConvOps
    /\ \E site_id \in SiteIds, l \in docs[1].content, rt \in docs[1].content :
          /\ lt(l.key, rt.key)
          /\ InsertCall(1, site_id, l.key, rt.key, fresh)
    /\ pending' = IF abort' = NoAbort
                  THEN pending \cup {[kind |-> "insert", key |-> last'.key,
                                      value |-> fresh, n |-> nops]}
                  ELSE pending
    /\ UNCHANGED <<keys, result, args, out>>

SrcRemove ==
    /\ nops < MaxConvOps
    /\ \E o \in issued :
          /\ RemoveCall(1, o.key)
          /\ pending' = pending \cup {[kind |-> "remove", key |-> o.key,
                                       value |-> fresh, n |-> nops]}
    /\ UNCHANGED <<keys, result, args, out>>

Deliver ==
    /\ \E o \in pending :
          /\ \/ o.kind = "insert" /\ InsertAtCall(2, o.key, o.value)
             \/ o.kind = "remove" /\ RemoveCall(2, o.key)
          /\ pending' = pending \ {o}
    /\ UNCHANGED <<keys, result, args, out>>

NextConv == SrcInsert \/ SrcRemove \/ Deliver

SpecConv == Init /\ [][NextConv]_vars

(***************************************************************************)
(* SpecFuzz: test_fuzz of document.rs.  The test keeps, beside the         *)
(* document (docs[1]), the BTreeSet keys of the keys it holds and the Vec  *)
(* result; it inserts between the i-th and (i+1)-th key and mirrors that   *)
(* by result.insert(i, value), or removes the i-th key and mirrors that by *)
(* result.remove(i - 1).                                                   *)
(***************************************************************************)
\* turns of the loop of test_fuzz
MaxFuzzOps == 4

\* BTreeSet::insert: a key the set holds (by cmp) is not added again
BTreeSet_insert(set, key) ==
    IF \E k \in set : cmp(k, key) = Equal THEN set ELSE set \cup {key}

\* BTreeSet::remove
BTreeSet_remove(set, key) == {k \in set : cmp(k, key) # Equal}

\* the keys in the order BTreeSet::iter yields them
BTreeSet_iter(set) ==
    LET below == {<<Cardinality({o \in set : cmp(o, k) = Less}), k>> : k \in set}
    IN  [i \in 1..Cardinality(set) |-> (CHOOSE p \in below : p[1] = i - 1)[2]]

\* Vec::insert(i, v) and Vec::remove(i), i counting from 0
Vec_insert(v, i, x) == SubSeq(v, 1, i) \o <<x>> \o SubSeq(v, i + 1, Len(v))
Vec_remove(v, i) == SubSeq(v, 1, i) \o SubSeq(v, i + 2, Len(v))

\* the state of test_fuzz before its loop
InitFuzz ==
    /\ \E s \in InsertionStrategy : docs = [r \in Replicas |-> new(s)]
    /\ NoCalls
    /\ keys = {start, end}
    /\ result = <<>>
    /\ args = NoArgs
    /\ out = NoOut

FuzzInsert ==
    /\ nops < MaxFuzzOps
    /\ LET sorted == BTreeSet_iter(keys)
       IN  \E i \in 0..(Cardinality(keys) - 2), site_id \in SiteIds :
              /\ InsertCall(1, site_id, sorted[i + 1], sorted[i + 2], fresh)
              /\ keys' = BTreeSet_insert(keys, last'.key)
              /\ result' = Vec_insert(result, i, fresh)
    /\ UNCHANGED <<pending, args, out>>

FuzzRemove ==
    /\ nops < MaxFuzzOps
    /\ Cardinality(keys) > 2
    /\ LET sorted == BTreeSet_iter(keys)
       IN  \E i \in 1..(Cardinality(keys) - 2) :
              /\ RemoveCall(1, sorted[i + 1])
              /\ keys' = BTreeSet_remove(keys, sorted[i + 1])
              /\ result' = Vec_remove(result, i - 1)
    /\ UNCHANGED <<pending, args, out>>

NextFuzz == FuzzInsert \/ FuzzRemove

SpecFuzz == InitFuzz /\ [][NextFuzz]_vars

(***************************************************************************)
(* SpecReplay: a remote replica (docs[2]) inserts at the head of its       *)
(* document for site 1; a local replica (docs[1]) replays what the remote  *)
(* one returned, with insert_at and remove, in any order.                  *)
(***************************************************************************)
\* calls made on the two replicas of SpecReplay
MaxReplayOps == 5

RemoteInsert ==
    /\ nops < MaxReplayOps
    /\ InsertCall(2, 1, start, end, fresh)
    /\ UNCHANGED others

ReplayInsertAt ==
    /\ nops < MaxReplayOps
    /\ \E o \in issued : InsertAtCall(1, o.key, o.value)
    /\ UNCHANGED others

ReplayRemove ==
    /\ nops < MaxReplayOps
    /\ \E o \in issued : RemoveCall(1, o.key)
    /\ UNCHANGED others

NextReplay == RemoteInsert \/ ReplayInsertAt \/ ReplayRemove

SpecReplay == Init /\ [][NextReplay]_vars

(***************************************************************************)
(* SpecPick: Key::pick as Document::insert calls it (document.rs:63), on   *)
(* the gaps a caller reaches who keeps inserting next to the key it just   *)
(* got: args holds the gap, the strategy table and the clock of the        *)
(* document, out the last call of pick and its result.                     *)
(***************************************************************************)
\* calls of pick in SpecPick
MaxPicks == 5

\* no document is used
Unused ==
    /\ docs = [r \in Replicas |-> new(Front)]
    /\ NoCalls
    /\ keys = {}
    /\ result = <<>>

InitPick ==
    /\ Unused
    /\ \E s \in InsertionStrategy :
          args = [left |-> start, right |-> end, strategies |-> <<s>>, clock |-> 2]
    /\ out = NoOut

Pick ==
    /\ out.op = "pick" => out.abort = NoAbort
    /\ args.clock < 2 + MaxPicks
    /\ \E site_id \in SiteIds :
       \E p \in pick(args.left, args.right, Site(site_id), args.clock, args.strategies) :
          /\ out' = [op |-> "pick", left |-> args.left, right |-> args.right,
                     site_id |-> site_id, strategies |-> args.strategies,
                     key |-> p.key, level |-> p.level, room |-> p.room,
                     abort |-> p.abort]
          /\ \E side \in {"before", "after"} :
                args' = [left |-> IF side = "after" THEN p.key ELSE args.left,
                         right |-> IF side = "before" THEN p.key ELSE args.right,
                         strategies |-> p.strategies,
                         clock |-> args.clock + 1]
    /\ UNCHANGED <<docs, issued, last, abort, nops, pending, keys, result>>

NextPick == Pick

SpecPick == InitPick /\ [][NextPick]_vars

(***************************************************************************)
(* SpecCmp: Key::cmp and Key::eq on any two keys of at most MaxKeyLen      *)
(* segments over a sample of segments.                                     *)
(***************************************************************************)
\* segments of a key of SpecCmp
MaxKeyLen == 2

SegmentSample ==
    {<<0, Sentinel>>, <<0, Site(1)>>, <<1, Sentinel>>, <<1, Site(1)>>, <<1, Site(2)>>}

KeyUniverse ==
    {Key(position, 0) :
        position \in UNION {[1..n -> SegmentSample] : n \in 1..MaxKeyLen}}

InitCmp ==
    /\ Unused
    /\ args \in [left : KeyUniverse, right : KeyUniverse]
    /\ out = NoOut

Compare ==
    /\ out = NoOut
    /\ out' = [op |-> "cmp",
               cmp |-> cmp(args.left, args.right),
               rev |-> cmp(args.right, args.left),
               eq |-> eq(args.left, args.right)]
    /\ UNCHANGED <<docs, issued, last, abort, nops, pending, keys, result, args>>

NextCmp == Compare

SpecCmp == InitCmp /\ [][NextCmp]_vars

(***************************************************************************)
(* SpecPickAny: Key::pick on any two keys left < right of at most          *)
(* MaxKeyLen segments over the sample of segments, for any site and any    *)
(* level-0 strategy.                                                       *)
(***************************************************************************)
PickAny ==
    /\ out = NoOut
    /\ lt(args.left, args.right)
    /\ \E site_id \in SiteIds, s \in InsertionStrategy :
       \E p \in pick(args.left, args.right, Site(site_id), 2, <<s>>) :
          out' = [op |-> "pick", left |-> args.left, right |-> args.right,
                  site_id |-> site_id, strategies |-> <<s>>,
                  after |-> p.strategies, key |-> p.key, level |-> p.level,
                  room |-> p.room, abort |-> p.abort]
    /\ UNCHANGED <<docs, issued, last, abort, nops, pending, keys, result, args>>

NextPickAny == PickAny

SpecPickAny == InitCmp /\ [][NextPickAny]_vars

(***************************************************************************)
(* Claims checked on the replicas (Spec).                                  *)
(***************************************************************************)

\* C1 (order density): whenever insert was called with two keys left < right
\* of the document, the key it computed lies strictly between them and the
\* assertion left < key < right of insert did not fail.
C1_OrderDensity ==
    last.op = "insert" =>
        /\ abort # "insert: left < key < right"
        /\ lt(last.left, last.key)
        /\ lt(last.key, last.right)

\* C1 witness: an insert between two keys with no room at level 0 returned
\* a key of two segments.
C1_Witness ==
    /\ last.op = "insert"
    /\ abort = NoAbort
    /\ Len(last.key.position) = 2
    /\ last.left # start

\* C5 (sentinel invariant): every document holds start and end, each mapped
\* to None.
C5_Sentinels ==
    \A r \in Replicas :
        /\ Entry(start, None) \in docs[r].content
        /\ Entry(end, None) \in docs[r].content

\* C7 (overwrite on local insert): after insert returned k, an entry it found
\* at k's path carried a strictly lower clock, and the map holds the value
\* passed under k with k's clock.
C7_Overwrite ==
    (last.op = "insert" /\ abort = NoAbort) =>
        /\ \A o \in last.occupied : o.key.clock < last.key.clock
        /\ Entry(last.key, Some(last.value)) \in docs[last.r].content
        /\ get(docs[last.r], last.key) = Some(last.value)

\* C10 (clock): every clock starts at 2 and never decreases; a call of insert
\* raises the clock of its document by exactly one and returns a key carrying
\* the clock held before, so the keys one document returns carry strictly
\* increasing clocks (each is below the clock of the document afterwards).
C10_Clock ==
    /\ \A r \in Replicas : docs[r].clock = 2
    /\ [][ /\ \A r \in Replicas : docs'[r].clock >= docs[r].clock
           /\ (last'.op = "insert" /\ abort' = NoAbort) =>
                 /\ docs'[last'.r].clock = docs[last'.r].clock + 1
                 /\ last'.key.clock = docs[last'.r].clock
                 /\ \A o \in issued : o.by = last'.r => o.key.clock < last'.key.clock
         ]_vars

\* C10 witness: a document has returned two keys, the second with clock 3.
C10_Witness ==
    /\ last.op = "insert"
    /\ abort = NoAbort
    /\ last.key.clock = 3
    /\ docs[last.r].clock = 4

(***************************************************************************)
(* Claims checked on the Document of lib.rs (SpecLib) and on the delivery  *)
(* of a source's operations (SpecConv).                                    *)
(***************************************************************************)

\* C4 (idempotent removal): a remove called with a key that is not present
\* ends without an abort and leaves the document as it was.
C4_IdempotentRemoval ==
    (last.op = "remove" /\ last.occupied = {}) =>
        /\ abort = NoAbort
        /\ docs[last.r] = last.before

\* C2 (convergence under reordering): once every operation of the source has
\* been delivered, in whatever order, the second replica iterates the values
\* the source iterates.
C2_Convergence ==
    (pending = {} /\ abort = NoAbort) => iter(docs[2]) = iter(docs[1])

(***************************************************************************)
(* Claims checked on test_fuzz (SpecFuzz) and on replay (SpecReplay).      *)
(***************************************************************************)

\* C3 (equivalence with a plain list): after every turn of test_fuzz no call
\* has aborted, and iter yields the values of result in the order of result.
C3_ListEquivalence ==
    /\ abort = NoAbort
    /\ LET items == iter_entries(docs[1])
       IN  /\ \A i \in DOMAIN items : items[i].value # None
           /\ [i \in DOMAIN items |-> unwrap(items[i].value)] = result

\* C3 witness: hello between start and end, then ! between hello and end,
\* then world between hello and !, then hello removed.
C3_Witness ==
    /\ nops = 4
    /\ last.op = "remove"
    /\ result = <<3, 2>>
    /\ Cardinality(keys) = 4

\* C8 (stale-removal protection): remove deletes an entry only when the clock
\* stored with it equals the clock of the key passed; and when the value
\* stored at the path was written by a call carrying a newer clock than the
\* key passed, remove leaves the entry in place.
C8_StaleRemoval ==
    last.op = "remove" =>
        \A o \in last.occupied :
            /\ o \notin docs[last.r].content => o.key.clock = last.key.clock
            /\ (\E w \in issued : /\ eq(w.key, o.key)
                                  /\ o.value = Some(w.value)
                                  /\ w.key.clock > last.key.clock)
                  => o \in docs[last.r].content

(***************************************************************************)
(* Claims checked on pick (SpecPick) and on cmp (SpecCmp).                 *)
(***************************************************************************)

\* the strategy tables of at most n levels
StrategyTables(n) == UNION {[1..m -> InsertionStrategy] : m \in 1..n}

\* C6 (collision freedom across sites): the key pick returned for one site
\* has a path that pick returns, between the same bounds, for no other site,
\* whatever the strategy table and the draws of the other replica.
C6_CollisionFreedom ==
    (out.op = "pick" /\ out.abort = NoAbort) =>
        \A other \in SiteIds \ {out.site_id} :
        \A table \in StrategyTables(out.level + 1) :
        \A p \in pick(out.left, out.right, Site(other), 2, table) :
            ~eq(out.key, p.key)

\* C6 witness: pick stopped at level 1 on adjacent indices, where only the
\* origin of the new segment tells its key from the left bound.
C6_Witness ==
    /\ out.op = "pick"
    /\ out.abort = NoAbort
    /\ out.level = 1
    /\ ~out.room

\* the segments of a key up to level n, (0, Sentinel) where it has none
Padded(key, n) ==
    [i \in 1..n |-> IF i <= Len(key.position) THEN key.position[i] ELSE <<0, Sentinel>>]

\* origin a is below origin b: Sentinel below every site, sites by their ids
OriginBelow(a, b) ==
    \/ a = Sentinel /\ b # Sentinel
    \/ a # Sentinel /\ b # Sentinel /\ a[2] < b[2]

\* segment a is below segment b: by index first, by origin second
SegmentBelow(a, b) == a[1] < b[1] \/ (a[1] = b[1] /\ OriginBelow(a[2], b[2]))

\* key a is below key b in the lexicographic order of the padded segments
LexBelow(a, b) ==
    LET n == Max(Len(a.position), Len(b.position))
    IN  \E d \in 1..n :
           /\ \A i \in 1..(d - 1) : Padded(a, n)[i] = Padded(b, n)[i]
           /\ SegmentBelow(Padded(a, n)[d], Padded(b, n)[d])

ClockSample == {0, 2, 3}

\* C9 (key order): cmp is the lexicographic order of the padded segment
\* sequences; it is antisymmetric and transitive; and neither cmp nor ==
\* reads the clock: keys of one path and different clocks are equal.
C9_KeyOrder ==
    out.op = "cmp" =>
        LET a == args.left
            b == args.right
        IN  /\ out.cmp = Less <=> LexBelow(a, b)
            /\ out.cmp = Greater <=> LexBelow(b, a)
            /\ out.cmp = Less <=> out.rev = Greater
            /\ out.cmp = Equal <=> out.rev = Equal
            /\ \A c \in KeyUniverse :
                  (out.cmp # Greater /\ cmp(b, c) # Greater) => cmp(a, c) # Greater
            /\ \A ca \in ClockSample, cb \in ClockSample :
                  /\ cmp(Key(a.position, ca), Key(b.position, cb)) = out.cmp
                  /\ eq(Key(a.position, ca), Key(b.position, cb)) = out.eq
                  /\ eq(Key(a.position, ca), Key(a.position, cb))
                  /\ cmp(Key(a.position, ca), Key(a.position, cb)) = Equal

\* C9 witness: two keys of different lengths were compared, and the padding
\* of the shorter one decided the order.
C9_Witness ==
    /\ out.op = "cmp"
    /\ out.cmp = Less
    /\ Len(args.left.position) < Len(args.right.position)
    /\ SubSeq(args.right.position, 1, Len(args.left.position)) = args.left.position

(***************************************************************************)
(* Claims about the queries of the Document (len, is_empty, get, iter),    *)
(* checked on the replicas (Spec) and on one document (SpecDoc).           *)
(***************************************************************************)

\* the entries of a document other than the two sentinels
live(self) == {e \in self.content : ~eq(e.key, start) /\ ~eq(e.key, end)}

\* C11 (length): in every state the subtraction of len does not underflow,
\* len returns the number of values iter yields, and is_empty is true exactly
\* when iter yields nothing.
C11_Length ==
    \A r \in Replicas :
        /\ ~len_underflows(docs[r])
        /\ len(docs[r]) = Len(iter(docs[r]))
        /\ is_empty(docs[r]) <=> iter(docs[r]) = <<>>

\* C12 (lookup): in every state get returns None for start() and for end(),
\* None for every key a caller holds whose path is not in the map, the stored
\* value for every key whose path is in the map, and, right after
\* insert_at(k, v), Some(v) for k.
C12_Lookup ==
    \A r \in Replicas :
        /\ get(docs[r], start) = None
        /\ get(docs[r], end) = None
        /\ \A k \in held :
              /\ (\A e \in docs[r].content : e.key.position # k.position)
                    => get(docs[r], k) = None
              /\ \A e \in docs[r].content :
                    e.key.position = k.position => get(docs[r], k) = e.value
        /\ (last.op = "insert_at" /\ last.r = r)
              => get(docs[r], last.key) = Some(last.value)

\* C20 (iter never aborts): in every state no call of iter has panicked,
\* every entry the filter of iter lets through holds Some(value), so that
\* unwrap never meets None, and iter yields the values of exactly the entries
\* other than the sentinels, each once, in ascending order of their keys.
C20_IterTotal ==
    LET items == iter_entries(docs[1])
    IN  /\ abort # "iter: unwrap"
        /\ \A i \in DOMAIN items : items[i].value # None
        /\ {items[i] : i \in DOMAIN items} = live(docs[1])
        /\ Len(items) = Cardinality(live(docs[1]))
        /\ \A i \in DOMAIN items : \A j \in DOMAIN items :
              i < j => lt(items[i].key, items[j].key)
        /\ last.op = "query" =>
              last.ret.iter = [i \in DOMAIN items |-> items[i].value[1]]

\* C20 witness: iter yielded two values in a document whose start() entry a
\* call of insert_at has overwritten with a value.
C20_Witness ==
    /\ last.op = "query"
    /\ abort = NoAbort
    /\ Len(last.ret.iter) = 2
    /\ get(docs[1], start) # None

(***************************************************************************)
(* Claims about the allocation inside pick (SpecPick, SpecPickAny).        *)
(***************************************************************************)

\* sequence a is a prefix of sequence b
IsPrefix(a, b) == Len(a) <= Len(b) /\ SubSeq(b, 1, Len(a)) = a

\* the indices of the two sides that the loop of pick read at the level it
\* stopped at
StopLeft == pick_lhs(out.left, out.level)[1]
StopRight == pick_rhs(out.right, out.level)[1]

\* the index of the segment pick appended
NewIndex == out.key.position[out.level + 1][1]

\* C13 (strategy stickiness): the strategy table always holds the level-0
\* entry; a call of pick leaves a table of which the table before is a prefix
\* (entries are appended, none changes); and an index allocated at a level
\* lies in the window of the entry the table holds for that level, which is
\* the entry it held before the call whenever it held one.
C13_Stickiness ==
    /\ Len(args.strategies) >= 1
    /\ out.op = "pick" =>
          /\ IsPrefix(out.strategies, args.strategies)
          /\ (out.room /\ out.abort = NoAbort) =>
                /\ out.level + 1 <= Len(args.strategies)
                /\ NewIndex \in pick_position(StopLeft + 1, StopRight,
                                              args.strategies[out.level + 1])
                /\ out.level + 1 <= Len(out.strategies) =>
                      NewIndex \in pick_position(StopLeft + 1, StopRight,
                                                 out.strategies[out.level + 1])

\* C13 witness: pick allocated an index at level 1 when the table already
\* held the entry of level 1.
C13_Witness ==
    /\ out.op = "pick"
    /\ out.abort = NoAbort
    /\ out.room
    /\ out.level = 1
    /\ Len(out.strategies) >= 2

\* C14 (termination of pick): for any two keys left < right and any site the
\* loop of pick ends, at the latest at the level at which both keys have run
\* out of segments, so that the key returned has at most
\* max(len(left), len(right)) + 1 segments.
C14_Termination ==
    out.op = "pick" =>
        /\ out.level <= Max(Len(out.left.position), Len(out.right.position))
        /\ out.abort = NoAbort =>
              Len(out.key.position)
                 <= Max(Len(out.left.position), Len(out.right.position)) + 1

\* C14 witness: pick stopped at the level at which both keys had run out.
C14_Witness ==
    /\ out.op = "pick"
    /\ out.abort = NoAbort
    /\ out.level = Max(Len(out.left.position), Len(out.right.position))
    /\ Len(out.key.position) = out.level + 1
    /\ Len(out.left.position) = MaxKeyLen

\* C15 (allocation window): when the level pick stops at has room
\* (left.index + 1 < right.index), neither the assertion of pick_position
\* nor the random draw fails, and the new index i satisfies
\* left.index < i < right.index; under Front it lies in
\* [left.index + 1, min(left.index + 1 + STEP, right.index)), under Back in
\* [max(right.index - STEP, left.index + 1), right.index).
C15_Window ==
    (out.op = "pick" /\ out.room) =>
        /\ StopLeft + 1 < StopRight
        /\ out.abort = NoAbort
        /\ ~pick_position_panics(StopLeft + 1, StopRight, Front)
        /\ ~pick_position_panics(StopLeft + 1, StopRight, Back)
        /\ StopLeft < NewIndex
        /\ NewIndex < StopRight
        /\ args.strategies[out.level + 1] = Front =>
              /\ StopLeft + 1 <= NewIndex
              /\ NewIndex < Min(StopLeft + 1 + STEP, StopRight)
        /\ args.strategies[out.level + 1] = Back =>
              /\ Max(StopRight - STEP, StopLeft + 1) <= NewIndex
              /\ NewIndex < StopRight

\* C15 witness: a Back allocation in a gap of a single free index, where the
\* window is clipped to the gap.
C15_Witness ==
    /\ out.op = "pick"
    /\ out.abort = NoAbort
    /\ out.room
    /\ args.strategies[out.level + 1] = Back
    /\ StopLeft + 2 = StopRight

\* C16 (shape of a picked key): the key pick returns when it stops at level d
\* is the segments of left at levels 0..d-1, (0, Sentinel) where left has
\* none, followed by one segment whose origin is the requesting site; when
\* pick stops for adjacent indices, left's origin at that level is below the
\* site and the new segment is (left.index, site).
C16_Shape ==
    (out.op = "pick" /\ out.abort = NoAbort) =>
        /\ Len(out.key.position) = out.level + 1
        /\ \A i \in 1..out.level :
              out.key.position[i] = IF i <= Len(out.left.position)
                                    THEN out.left.position[i]
                                    ELSE <<0, Sentinel>>
        /\ out.key.position[out.level + 1][2] = Site(out.site_id)
        /\ ~out.room =>
              /\ StopLeft + 1 = StopRight
              /\ Id_cmp(pick_lhs(out.left, out.level)[2], Site(out.site_id)) = Less
              /\ out.key.position[out.level + 1] = <<StopLeft, Site(out.site_id)>>

\* C16 witness: pick stopped for adjacent indices at level 1, below a copied
\* segment of left with a site as its origin.
C16_Witness ==
    /\ out.op = "pick"
    /\ out.abort = NoAbort
    /\ ~out.room
    /\ out.level = 1
    /\ out.key.position[1] = out.left.position[1]
    /\ out.left.position[1][2] # Sentinel

(***************************************************************************)
(* Claims about the keys of the replicas (SpecShare, SpecDoc) and about    *)
(* the frame of the calls (SpecDoc).                                       *)
(***************************************************************************)

\* C17 (keys stay between the sentinels): where callers pass to insert_at and
\* remove only keys insert returned, every key of every map other than start
\* and end compares strictly greater than start and strictly less than end,
\* and start is the first and end the last entry of the map.
C17_Between ==
    \A r \in Replicas :
        /\ \A e \in live(docs[r]) : lt(start, e.key) /\ lt(e.key, end)
        /\ \E e \in docs[r].content : eq(e.key, start)
        /\ \E e \in docs[r].content : eq(e.key, end)
        /\ \A e \in docs[r].content :
              cmp(e.key, start) # Less /\ cmp(e.key, end) # Greater

\* C17 witness: a replica holds, between the sentinels, a key of its own and
\* a key another replica's insert returned, just replayed into a vacant entry.
C17_Witness ==
    /\ last.op = "insert_at"
    /\ last.occupied = {}
    /\ Cardinality(live(docs[last.r])) = 2
    /\ \E o \in issued : o.by # last.r /\ o.key = last.key

\* C18 (frame of replay and removal): insert_at(k, v) and remove(k) end
\* without abort, leave the clock and the strategy table as they were and
\* leave every entry stored under a path other than k's as it was;
\* insert_at(k, v) leaves exactly one entry at k's path, holding v; and the
\* queries start, end, get, iter, len and is_empty leave the document as it
\* was.
C18_Frame ==
    /\ last.op \in {"insert_at", "remove"} =>
          /\ abort = NoAbort
          /\ docs[last.r].clock = last.before.clock
          /\ docs[last.r].strategies = last.before.strategies
          /\ \A e \in last.before.content :
                ~eq(e.key, last.key) => e \in docs[last.r].content
          /\ \A e \in docs[last.r].content :
                ~eq(e.key, last.key) => e \in last.before.content
    /\ last.op = "insert_at" =>
          /\ get(docs[last.r], last.key) = Some(last.value)
          /\ Cardinality({e \in docs[last.r].content : eq(e.key, last.key)}) = 1
    /\ last.op = "query" => docs[last.r] = last.before

\* C18 witness: insert_at replaced the value of an entry stored with another
\* clock than the one of the key passed.
C18_Witness ==
    /\ last.op = "insert_at"
    /\ \E o \in last.occupied :
          o.key.clock # last.key.clock /\ o.value # Some(last.value)

\* the keys callers hold and the key the last insert computed, returned or not
Picked ==
    held \cup (IF last.op = "insert" /\ Len(last.key.position) > 0
               THEN {last.key} ELSE {})

\* C19 (Ord and Eq agree on reachable keys): for any two keys among start,
\* end and the keys pick computed between such keys, cmp returns Equal
\* exactly when the two paths are equal; and no such key other than start()
\* itself ends in a (0, Sentinel) segment.
C19_OrdEq ==
    /\ \A a \in Picked : \A b \in Picked : (cmp(a, b) = Equal) <=> eq(a, b)
    /\ \A k \in Picked \ {start} : k.position[Len(k.position)] # <<0, Sentinel>>

\* C19 witness: callers hold a key and a longer key that extends its path,
\* which only the padding of cmp tells apart.
C19_Witness ==
    \E a \in held : \E b \in held :
        /\ Len(a.position) < Len(b.position)
        /\ SubSeq(b.position, 1, Len(a.position)) = a.position
        /\ cmp(a, b) = Less
=============================================================================
